---- MODULE Spec2Model ----
(***************************************************************************)
(* State-machine model of the RFdiffusion SageMaker wrappers:             *)
(*   - sagemaker/transform.py : batch transform (run_cmd,                 *)
(*     maybe_download_models, main)                                       *)
(*   - src/inference.py + app.py : synchronous predict / invocations      *)
(* File names are sequences of one-character strings so that the          *)
(* extension filter, pathlib stem, glob patterns and sorted() are         *)
(* computed the way the code computes them.                               *)
(***************************************************************************)
EXTENDS Integers, Sequences, FiniteSets, TLC

\* ------------------------------------------------------------------ bounds
MaxFiles == 2
MaxTimeout == 1
MaxLines == 1
MaxCalls == 5
MaxRunLines == 11

\* ------------------------------------------------------- program constants
SnippetLines == 10
SnippetChars == 500

\* ----------------------------------------------------- names in the model
a_pdb == <<"a", ".", "p", "d", "b">>
a_cif == <<"a", ".", "c", "i", "f">>
b_PDB == <<"b", ".", "P", "D", "B">>
c_txt == <<"c", ".", "t", "x", "t">>

InputUniverse == {a_pdb, a_cif, b_PDB, c_txt}

d0_pdb == <<"d", "_", "0", ".", "p", "d", "b">>
d0_trb == <<"d", "_", "0", ".", "t", "r", "b">>
x_pdb == <<"x", ".", "p", "d", "b">>

OutUniverse == {d0_pdb, d0_trb, x_pdb}

uri == <<"s", "3">>
S3Envs == {<<>>, <<" ">>, uri, <<" ", "s", "3", " ">>}

run_log == <<"r", "u", "n", ".", "l", "o", "g">>
summary_json == <<"s", "u", "m", "m", "a", "r", "y", ".", "j", "s", "o", "n">>
error_json == <<"e", "r", "r", "o", "r", ".", "j", "s", "o", "n">>

output_prefix_base == <<"d">>

Extensions ==
  { <<".", "p", "d", "b">>, <<".", "c", "i", "f">>, <<".", "e", "n", "t">>,
    <<".", "m", "m", "c", "i", "f">> }

\* ------------------------------------------------------- string functions
Ord(c) ==
  CASE c = "." -> 46 [] c = "/" -> 47 [] c = "0" -> 48
    [] c = "B" -> 66 [] c = "D" -> 68 [] c = "P" -> 80
    [] c = "_" -> 95
    [] c = "a" -> 97 [] c = "b" -> 98 [] c = "c" -> 99 [] c = "d" -> 100
    [] c = "e" -> 101 [] c = "f" -> 102 [] c = "g" -> 103 [] c = "i" -> 105
    [] c = "j" -> 106 [] c = "l" -> 108 [] c = "m" -> 109 [] c = "n" -> 110
    [] c = "o" -> 111 [] c = "p" -> 112 [] c = "r" -> 114 [] c = "s" -> 115
    [] c = "t" -> 116 [] c = "u" -> 117 [] c = "x" -> 120 [] c = "y" -> 121
    [] OTHER -> 0

LowerChar(c) ==
  CASE c = "B" -> "b" [] c = "D" -> "d" [] c = "P" -> "p" [] OTHER -> c

Lower(s) == [i \in 1..Len(s) |-> LowerChar(s[i])]

EndsWith(s, suf) ==
  /\ Len(suf) <= Len(s)
  /\ SubSeq(s, Len(s) - Len(suf) + 1, Len(s)) = suf

StartsWith(s, pre) ==
  /\ Len(pre) <= Len(s)
  /\ SubSeq(s, 1, Len(pre)) = pre

\* str < str in Python: lexicographic by code point
LexLess(s, t) ==
  \E i \in 1..(Len(t)) :
    /\ \A k \in 1..(i - 1) : k <= Len(s) /\ s[k] = t[k]
    /\ \/ i > Len(s)
       \/ i <= Len(s) /\ Ord(s[i]) < Ord(t[i])

\* a sort that puts the greatest name first
RECURSIVE SortedDescending(_)
SortedDescending(S) ==
  IF S = {} THEN <<>>
  ELSE LET m == CHOOSE x \in S : \A y \in S \ {x} : LexLess(y, x)
       IN <<m>> \o SortedDescending(S \ {m})

RECURSIVE Sorted(_)
Sorted(S) ==
  IF S = {} THEN <<>>
  ELSE LET m == CHOOSE x \in S : \A y \in S \ {x} : LexLess(x, y)
       IN <<m>> \o Sorted(S \ {m})

\* str.strip() for the kinds of whitespace the model has
IsSpace(c) == c \in {" ", "\n"}

RECURSIVE Strip(_)
Strip(s) ==
  IF s = <<>> THEN s
  ELSE IF IsSpace(Head(s)) THEN Strip(Tail(s))
  ELSE IF IsSpace(s[Len(s)]) THEN Strip(SubSeq(s, 1, Len(s) - 1))
  ELSE s

\* s[:n]
Truncate(s, n) == SubSeq(s, 1, IF Len(s) < n THEN Len(s) ELSE n)

\* glob "*" does not match names that start with a dot
GlobStar(names) == {n \in names : Len(n) > 0 /\ n[1] # "."}

\* position of the last "." in a name, 0 when there is none
RFind(s) ==
  IF \E i \in 1..Len(s) : s[i] = "."
  THEN CHOOSE i \in 1..Len(s) : s[i] = "." /\ \A k \in (i + 1)..Len(s) : s[k] # "."
  ELSE 0

\* os.path.join of a directory and a name
PathJoin(d, n) == d \o <<"/">> \o n

\* position of the last "/" in a path, 0 when there is none
LastSlash(p) ==
  IF \E i \in 1..Len(p) : p[i] = "/"
  THEN CHOOSE i \in 1..Len(p) : p[i] = "/" /\ \A k \in (i + 1)..Len(p) : p[k] # "/"
  ELSE 0

\* os.path.basename, os.path.dirname
Basename(p) == SubSeq(p, LastSlash(p) + 1, Len(p))
Dirname(p) == SubSeq(p, 1, LastSlash(p) - 1)

\* pathlib.Path(p).stem: the final component without its last suffix
Stem(p) ==
  LET name == Basename(p)
      i == RFind(name)
  IN IF 1 < i /\ i < Len(name) THEN SubSeq(name, 1, i - 1) ELSE name

Eligible(p) == \E e \in Extensions : EndsWith(Lower(p), e)

input_dir == <<"i">>
output_root == <<"o">>

\* the model directories: "/app/RFdiffusion/models", "/models", a value of RFD_MODEL_DIR
app_models == <<"/", "a">>
root_models == <<"/", "m">>
custom_models == <<"/", "w">>

\* sorted([p for p in glob(input_dir/*) if p.lower().endswith(...)])
Discover(listing) ==
  Sorted({p \in {PathJoin(input_dir, n) : n \in GlobStar(listing)} : Eligible(p)})

\* ------------------------------------------------------------------ state
VARIABLES
  mode,            \* "batch": transform.main; "ensure": repeated provisioner calls; "http": app.py
  pc,              \* position of the running code
  exitCode,        \* -1 while the process runs, else its exit status
  inputDirExists,  \* os.path.isdir(input_dir)
  listing,         \* names in the input directory
  timeout,         \* RFD_TIMEOUT_SECONDS, 0 = unset (None)
  s3_env,          \* value of RFD_MODEL_S3_URI ("" when unset)
  model_env,       \* value of RFD_MODEL_DIR (<<>> when unset)
  otherDirs,       \* model directories that exist, the provisioner's own aside
  modelDirExists,  \* os.path.exists(model_dir) of the provisioner
  marker,          \* <model_dir>/.download_complete exists
  syncCalls,       \* number of `aws s3 sync` calls issued
  calls,           \* number of calls of maybe_download_models
  returns,         \* number of those calls that returned normally
  provHist,        \* what the provisioner has done so far (history, not program state)
  pdb_files,       \* sorted list of discovered inputs
  idx,             \* index of the job of the current loop iteration
  processed,
  failed,
  manifest,        \* <<>> or <<content of manifest.json>>
  manifestWrites,
  dirs,            \* output directories that exist under output_root
  files,           \* <<dir, name>> : files that exist under output_root
  contents,        \* <<dir, name, content>> : what summary.json and error.json hold
  proc,            \* child process: none, running, closed (stdout at EOF, not reaped), exited, killed
  rc,              \* exit code of the child
  emitted,         \* the lines the child has written, in order
  pipe,            \* lines written and not yet read
  lines,           \* run_cmd's snippet
  sink,            \* lines written to run.log
  elapsed,         \* time.time() - start
  err,             \* exception travelling to the except clause
  hist,            \* per job: what happened (history, not program state)
  request,         \* the POST /invocations request
  sm_out,          \* SM_OUTPUT_DATA_DIR is set
  body,            \* request.get_json(...)
  command,         \* predict's argument list
  subprocs,        \* subprocess.run calls made: [model, download]
  madeDirs,        \* predict has created its directories
  outcome,         \* how the model command ended: none, ok, nonzero, timeout, nolaunch
  result,          \* the CompletedProcess of the model command
  disk,            \* names in the directory of output_prefix
  produced_files,  \* _collect_outputs(output_prefix)
  mirrored,        \* names copied to SM_OUTPUT_DATA_DIR
  raised,          \* the exception that left predict
  response         \* what invocations returns

batchVars ==
  <<mode, pc, exitCode, inputDirExists, listing, timeout, s3_env, model_env, otherDirs,
    modelDirExists,
    marker, syncCalls, calls, returns, provHist, pdb_files, idx, processed, failed, manifest,
    manifestWrites, dirs, files, contents, proc, rc, emitted, pipe, lines, sink, elapsed,
    err, hist>>

httpVars ==
  <<request, sm_out, body, command, subprocs, madeDirs, outcome, result, disk,
    produced_files, mirrored, raised, response>>

vars == <<batchVars, httpVars>>

MaxTime == MaxTimeout + 1

NoErr == [kind |-> "none", msg |-> <<>>]

NoBody == [kind |-> "none", hydra |-> "absent", contigs |-> FALSE, inline |-> FALSE, auto |-> FALSE]
NoRaise == [type |-> "none", args |-> <<>>]
NoResult == [returncode |-> -1, stdout |-> "", stderr |-> ""]
NoResponse == [status |-> 0]

\* the adapter is idle: the state of its variables in a batch run
InitHttpIdle ==
  /\ request = NoBody
  /\ sm_out = FALSE
  /\ body = NoBody
  /\ command = <<>>
  /\ subprocs = [model |-> 0, download |-> 0]
  /\ madeDirs = FALSE
  /\ outcome = "none"
  /\ result = NoResult
  /\ disk = {}
  /\ produced_files = <<>>
  /\ mirrored = {}
  /\ raised = NoRaise
  /\ response = NoResponse

BlankHist ==
  [launches |-> 0, overran |-> FALSE, killed |-> FALSE, rc |-> -1,
   own |-> {}, listed |-> {}, io |-> FALSE, late |-> FALSE, seq |-> 0,
   alive |-> FALSE, model_dir |-> <<>>]

Listings == {L \in SUBSET InputUniverse : Cardinality(L) <= MaxFiles}

\* what one run of the command may leave in its output directory
OutSets == {{}, {d0_pdb}, {d0_pdb, d0_trb}, {x_pdb}}

InitCommon ==
  /\ exitCode = -1
  /\ syncCalls = 0
  /\ calls = 0
  /\ returns = 0
  /\ pdb_files = <<>>
  /\ idx = 0
  /\ processed = <<>>
  /\ failed = <<>>
  /\ manifest = <<>>
  /\ manifestWrites = 0
  /\ dirs = {}
  /\ files = {}
  /\ contents = {}
  /\ proc = "none"
  /\ rc = -1
  /\ emitted = <<>>
  /\ pipe = <<>>
  /\ lines = <<>>
  /\ sink = <<>>
  /\ elapsed = 0
  /\ err = NoErr
  /\ hist = <<>>

\* RFD_MODEL_DIR unset, no model directory but the provisioner's
InitDirsDefault ==
  /\ model_env = <<>>
  /\ otherDirs = {}

\* the weights directory and its marker as the container may find them
InitWeights(envs) ==
  /\ s3_env \in envs
  /\ modelDirExists \in BOOLEAN
  /\ marker \in BOOLEAN
  /\ marker => modelDirExists
  /\ Strip(s3_env) = <<>> => (modelDirExists /\ ~marker)
  /\ provHist = [initial |-> marker, created |-> FALSE, syncOk |-> FALSE,
                 mutatedAfter |-> FALSE]

Init ==
  /\ mode = "batch"
  /\ pc = "start"
  /\ inputDirExists \in BOOLEAN
  /\ listing \in Listings
  /\ ~inputDirExists => listing = {}
  /\ timeout \in {0, MaxTimeout}
  /\ InitWeights({<<>>, uri})
  /\ InitDirsDefault
  /\ InitCommon
  /\ InitHttpIdle

\* --------------------------------------------------- process termination
\* sys.exit(code), an uncaught exception (exit status 1) or the return of main
Exit(code) ==
  /\ pc' = "exited"
  /\ exitCode' = code

provVars == <<modelDirExists, marker, syncCalls, calls, returns, provHist>>
runVars == <<proc, rc, emitted, pipe, lines, sink, elapsed>>
jobVars == <<pdb_files, idx, processed, failed, manifest, manifestWrites, dirs, files, contents, err, hist>>
envVars == <<mode, inputDirExists, listing, timeout, s3_env, model_env, otherDirs, httpVars>>

\* ------------------------------------------------ main: input directory
CheckInputDir ==
  /\ pc = "start"
  /\ IF ~inputDirExists
     THEN Exit(1)
     ELSE pc' = "prov" /\ UNCHANGED exitCode
  /\ UNCHANGED <<envVars, provVars, runVars, jobVars>>

\* ------------------------------------------------ maybe_download_models
\* where control goes when maybe_download_models returns
ProvReturn ==
  /\ pc' = IF mode = "batch" THEN "discover" ELSE "called"
  /\ returns' = returns + 1

\* s3_uri = os.environ.get("RFD_MODEL_S3_URI", "").strip()
s3_uri == Strip(s3_env)

\* lines 31-35: with no remote source, return at once
ProvEnter ==
  /\ pc = "prov"
  /\ calls' = calls + 1
  /\ IF s3_uri = <<>>
     THEN ProvReturn
     ELSE pc' = "prov_dir" /\ UNCHANGED returns
  /\ UNCHANGED <<exitCode, envVars, modelDirExists, marker, syncCalls, provHist, runVars,
                 jobVars>>

\* lines 36-37
ProvMakeDir ==
  /\ pc = "prov_dir"
  /\ modelDirExists' = TRUE
  /\ provHist' = [provHist EXCEPT !.mutatedAfter = @ \/ (provHist.created /\ ~modelDirExists)]
  /\ pc' = "prov_marker"
  /\ UNCHANGED <<exitCode, envVars, marker, syncCalls, calls, returns, runVars, jobVars>>

\* a provisioner that syncs whether or not the marker is there
ProvCheckMarkerIgnored ==
  /\ pc = "prov_marker"
  /\ pc' = "sync"
  /\ UNCHANGED <<exitCode, envVars, modelDirExists, marker, syncCalls, calls, returns,
                 provHist, runVars, jobVars>>

\* lines 38-41: the marker is there: return without a sync
ProvCheckMarker ==
  /\ pc = "prov_marker"
  /\ IF marker THEN ProvReturn ELSE pc' = "sync" /\ UNCHANGED returns
  /\ UNCHANGED <<exitCode, envVars, modelDirExists, marker, syncCalls, calls, provHist,
                 runVars, jobVars>>

\* lines 42-44: subprocess.call starts `aws s3 sync`
ProvSyncStart ==
  /\ pc = "sync"
  /\ syncCalls' = syncCalls + 1
  /\ provHist' = [provHist EXCEPT !.mutatedAfter = @ \/ provHist.created]
  /\ pc' = "syncing"
  /\ UNCHANGED <<exitCode, envVars, modelDirExists, marker, calls, returns, runVars, jobVars>>

\* a provisioner that does not look at the exit code of the sync
ProvSyncReturnUnchecked ==
  /\ pc = "syncing"
  /\ \E r \in {0, 1} :
       /\ provHist' = [provHist EXCEPT !.syncOk = @ \/ (r = 0)]
       /\ pc' = "mark"
  /\ UNCHANGED <<exitCode, envVars, modelDirExists, marker, syncCalls, calls, returns,
                 runVars, jobVars>>

\* lines 44-47: the sync returns rc; a non-zero rc ends the process
ProvSyncReturn ==
  /\ pc = "syncing"
  /\ \E r \in {0, 1} :
       IF r # 0
       THEN Exit(1) /\ UNCHANGED provHist
       ELSE /\ pc' = "mark"
            /\ provHist' = [provHist EXCEPT !.syncOk = TRUE]
            /\ UNCHANGED exitCode
  /\ UNCHANGED <<envVars, modelDirExists, marker, syncCalls, calls, returns, runVars, jobVars>>

\* lines 48-49
ProvMark ==
  /\ pc = "mark"
  /\ marker' = TRUE
  /\ provHist' = [provHist EXCEPT !.created = TRUE]
  /\ ProvReturn
  /\ UNCHANGED <<exitCode, envVars, modelDirExists, syncCalls, calls, runVars, jobVars>>

\* ------------------------------------------------------- main: discovery
NoteManifest == [processed |-> <<>>, failed |-> <<>>, note |-> "no input files"]

\* lines 68-77
DiscoverJobs ==
  /\ pc = "discover"
  /\ pdb_files' = Discover(listing)
  /\ IF pdb_files' = <<>>
     THEN /\ manifest' = <<NoteManifest>>
          /\ manifestWrites' = manifestWrites + 1
          /\ Exit(0)
          /\ UNCHANGED <<idx, hist>>
     ELSE /\ idx' = 1
          /\ hist' = [j \in 1..Len(pdb_files') |-> BlankHist]
          /\ pc' = "mkdir"
          /\ UNCHANGED <<exitCode, manifest, manifestWrites>>
  /\ UNCHANGED <<envVars, provVars, runVars, processed, failed, dirs, files, contents, err>>

\* ------------------------------------------------------------ main: a job
pdb_path == pdb_files[idx]
out_dir == PathJoin(output_root, Stem(pdb_path))

\* lines 80-103: the output directory and the command; makedirs is outside the try
JobMkdir ==
  /\ pc = "mkdir"
  /\ \E ok \in BOOLEAN :
       IF ok
       THEN /\ dirs' = dirs \cup {out_dir}
            /\ pc' = "open"
            /\ UNCHANGED <<exitCode, hist>>
       ELSE /\ Exit(1)
            /\ hist' = [hist EXCEPT ![idx].io = TRUE]
            /\ UNCHANGED dirs
  /\ UNCHANGED <<envVars, provVars, runVars, pdb_files, idx, processed, failed,
                 manifest, manifestWrites, files, contents, err>>

\* line 32: model_dir of maybe_download_models
ProvModelDir == IF model_env = <<>> THEN app_models ELSE model_env

\* line 55: model_dir of main
MainModelDir == IF model_env = <<>> THEN root_models ELSE model_env

\* os.path.isdir of a model directory
IsDir(d) == IF d = ProvModelDir THEN modelDirExists ELSE d \in otherDirs

\* lines 85-90
EffectiveModelDir ==
  IF IsDir(MainModelDir) THEN MainModelDir
  ELSE IF IsDir(app_models) THEN app_models
  ELSE MainModelDir

\* lines 91-103 (the parts of the command that differ between jobs or runs)
Cmd ==
  [output_prefix |-> PathJoin(out_dir, output_prefix_base),
   model_directory_path |-> EffectiveModelDir,
   input_pdb |-> pdb_path]

ResetRun ==
  /\ proc' = "none"
  /\ rc' = -1
  /\ emitted' = <<>>
  /\ pipe' = <<>>
  /\ lines' = <<>>
  /\ sink' = <<>>
  /\ elapsed' = 0

\* raise inside the try of lines 105-123
Raise(kind, msg) ==
  /\ err' = [kind |-> kind, msg |-> msg]
  /\ pc' = "except"

\* the for loop moves to the next path, or ends
NextJob ==
  IF idx < Len(pdb_files)
  THEN idx' = idx + 1 /\ pc' = "mkdir"
  ELSE idx' = idx /\ pc' = "manifest"

\* ----------------------------------------------------------------- run_cmd
\* lines 8-15: open run.log, write the command, Popen, start the clock
RunCmdOpen ==
  /\ pc = "open"
  /\ \E ok \in BOOLEAN :
       IF ok
       THEN /\ files' = files \cup {<<out_dir, run_log>>}
            /\ proc' = "running"
            /\ elapsed' = 0
            /\ lines' = <<>>
            /\ hist' = [hist EXCEPT ![idx].launches = @ + 1,
                                    ![idx].alive = TRUE,
                                    ![idx].model_dir = Cmd.model_directory_path,
                                    ![idx].seq = 1 + Cardinality({j \in 1..Len(hist) : hist[j].seq > 0})]
            /\ pc' = "read"
            /\ UNCHANGED <<contents, err>>
       ELSE /\ Raise("OSError", <<"OSError">>)
            /\ hist' = [hist EXCEPT ![idx].io = TRUE]
            /\ UNCHANGED <<files, contents, proc, elapsed, lines>>
  /\ UNCHANGED <<exitCode, envVars, provVars, rc, emitted, pipe, sink, pdb_files, idx,
                 processed, failed, manifest, manifestWrites, dirs>>

\* a snippet without the limit of 10 entries
KeepAll(ls, line) == Append(ls, Truncate(Strip(line), SnippetChars))

\* lines 22-23
Keep(ls, line) ==
  IF Len(ls) < SnippetLines THEN Append(ls, Truncate(Strip(line), SnippetChars)) ELSE ls

\* lines 16-26: one iteration of the read loop; readline blocks while the child
\* is running with nothing in the pipe. Decoding the line (text=True) and writing
\* it to run.log can raise: the exception leaves run_cmd with the child untouched
ReadLine ==
  /\ pc = "read"
  /\ pipe # <<>> \/ proc # "running"
  /\ LET line == IF pipe # <<>> THEN Head(pipe) ELSE <<>>
     IN IF line = <<>> /\ proc = "exited"
        THEN \* break; rc = proc.wait(); return rc, lines
             /\ pc' = "returned"
             /\ UNCHANGED <<proc, pipe, lines, sink, err, hist>>
        ELSE \E r \in IF line # <<>> THEN {"ok", "decode", "write"} ELSE {"ok"} :
          IF r # "ok"
          THEN /\ pipe' = Tail(pipe)
               /\ Raise(IF r = "decode" THEN "UnicodeDecodeError" ELSE "OSError", <<r>>)
               /\ hist' = [hist EXCEPT ![idx].io = TRUE]
               /\ UNCHANGED <<proc, lines, sink>>
          ELSE
             /\ IF line # <<>>
                THEN /\ sink' = Append(sink, line)
                     /\ lines' = Keep(lines, line)
                     /\ pipe' = Tail(pipe)
                ELSE UNCHANGED <<sink, lines, pipe>>
             /\ IF timeout # 0 /\ elapsed > timeout
                THEN /\ proc' = IF proc \in {"running", "closed"} THEN "killed" ELSE proc
                     /\ hist' = [hist EXCEPT ![idx].killed = (proc \in {"running", "closed"}),
                                             ![idx].alive = FALSE,
                                             ![idx].late = TRUE]
                     /\ Raise("TimeoutError", <<"Command timed out after ", timeout, "s">>)
                ELSE UNCHANGED <<proc, hist, err, pc>>
  /\ UNCHANGED <<exitCode, envVars, provVars, rc, emitted, elapsed, pdb_files, idx,
                 processed, failed, manifest, manifestWrites, dirs, files, contents>>

\* ------------------------------------------------- the child and the clock
\* what the child may print as its k-th line: padded text, a blank line, a line
\* longer than the snippet keeps, a line with no newline at its end
LongLine == [i \in 1..(SnippetChars + 2) |-> IF i = 1 THEN " " ELSE "x"] \o <<"\n">>

LineChoices(k) ==
  IF k = 1 THEN {<<" ", "a", " ", "\n">>, <<"\n">>}
  ELSE IF k = 2 THEN {LongLine, <<"b">> \o <<"\n">>}
  ELSE {[i \in 1..k |-> "y"] \o <<"\n">>}

LineLimit == IF mode = "run" THEN MaxRunLines ELSE MaxLines

ChildWriteLine ==
  /\ proc = "running"
  /\ Len(emitted) < LineLimit
  /\ \E line \in LineChoices(Len(emitted) + 1) :
       /\ emitted' = Append(emitted, line)
       /\ pipe' = Append(pipe, line)
  /\ UNCHANGED <<pc, exitCode, envVars, provVars, proc, rc, lines, sink, elapsed, jobVars>>

\* the child has written its output files and closes its stdout
ChildClose ==
  /\ proc = "running"
  /\ \E S \in OutSets :
       /\ files' = files \cup {<<out_dir, f>> : f \in S}
       /\ hist' = [hist EXCEPT ![idx].own = S]
  /\ proc' = "closed"
  /\ UNCHANGED <<pc, exitCode, envVars, provVars, rc, emitted, pipe, lines, sink, elapsed,
                 pdb_files, idx, processed, failed, manifest, manifestWrites, dirs,
                 contents, err>>

\* the child terminates with an exit code
ChildExit ==
  /\ proc = "closed"
  /\ \E r \in {0, 1} :
       /\ rc' = r
       /\ hist' = [hist EXCEPT ![idx].rc = r, ![idx].alive = FALSE]
  /\ proc' = "exited"
  /\ UNCHANGED <<pc, exitCode, envVars, provVars, emitted, pipe, lines, sink, elapsed,
                 pdb_files, idx, processed, failed, manifest, manifestWrites, dirs, files, contents, err>>

\* a child that run_cmd left behind (an exception other than the timeout left the
\* loop) ends on its own at some later time
OrphanExit ==
  /\ pc # "exited"
  /\ \E j \in 1..Len(hist) :
       /\ hist[j].alive
       /\ j # idx \/ proc = "none"
       /\ hist' = [hist EXCEPT ![j].alive = FALSE]
  /\ UNCHANGED <<pc, exitCode, envVars, provVars, runVars, pdb_files, idx, processed, failed,
                 manifest, manifestWrites, dirs, files, contents, err>>

\* time passes while readline blocks: the child is running and the pipe is empty.
\* The loop body takes no time next to a timeout counted in seconds.
Tick ==
  /\ pc = "read"
  /\ proc = "running"
  /\ pipe = <<>>
  /\ elapsed < MaxTime
  /\ elapsed' = elapsed + 1
  /\ hist' = IF timeout # 0 /\ elapsed = timeout
             THEN [hist EXCEPT ![idx].overran = TRUE]
             ELSE hist
  /\ UNCHANGED <<pc, exitCode, envVars, provVars, proc, rc, emitted, pipe, lines, sink,
                 pdb_files, idx, processed, failed, manifest, manifestWrites, dirs, files, contents, err>>

\* lines 16-26 while the child has closed its stdout and still runs: readline
\* returns '' at once and poll() is None, so the loop spins and every moment that
\* passes is seen by the check of line 24
SpinTick ==
  /\ pc = "read"
  /\ proc = "closed"
  /\ pipe = <<>>
  /\ elapsed < MaxTime
  /\ elapsed' = elapsed + 1
  /\ IF timeout # 0 /\ elapsed + 1 > timeout
     THEN /\ proc' = "killed"
          /\ hist' = [hist EXCEPT ![idx].overran = TRUE, ![idx].killed = TRUE,
                                  ![idx].alive = FALSE, ![idx].late = TRUE]
          /\ Raise("TimeoutError", <<"Command timed out after ", timeout, "s">>)
     ELSE UNCHANGED <<proc, hist, err, pc>>
  /\ UNCHANGED <<exitCode, envVars, provVars, rc, emitted, pipe, lines, sink,
                 pdb_files, idx, processed, failed, manifest, manifestWrites, dirs, files, contents>>

\* ------------------------------------------------ main: after run_cmd
\* lines 107-109
JobClassify ==
  /\ pc = "returned"
  /\ IF rc # 0
     THEN Raise("RuntimeError", <<"Return code ", rc>>)
     ELSE pc' = "collect" /\ UNCHANGED err
  /\ UNCHANGED <<exitCode, envVars, provVars, runVars, pdb_files, idx, processed, failed,
                 manifest, manifestWrites, dirs, files, contents, hist>>

DirNames(d) == {f \in OutUniverse \cup {run_log, summary_json, error_json} : <<d, f>> \in files}

\* glob.glob(os.path.join(out_dir, "*.pdb"))
GlobProduced(d) ==
  {PathJoin(d, f) : f \in {g \in GlobStar(DirNames(d)) : EndsWith(g, <<".", "p", "d", "b">>)}}

Summary ==
  [input_file |-> Basename(pdb_path),
   produced_files |-> Sorted({Basename(f) : f \in GlobProduced(out_dir)}),
   command |-> Cmd,
   log_snippet |-> lines]

\* open(path, "w") followed by json.dump: the file holds `content` afterwards
WriteJson(d, name, content) ==
  /\ files' = files \cup {<<d, name>>}
  /\ contents' = {t \in contents : <<t[1], t[2]>> # <<d, name>>} \cup {<<d, name, content>>}

\* what a file holds when json.dump failed after open had created it
Truncated == [truncated |-> TRUE]

\* lines 110-123: summary.json is written, then the record is appended; the write
\* fails at open (no file) or in json.dump (the file is there, incomplete)
JobSummary ==
  /\ pc = "collect"
  /\ \E w \in {"ok", "noopen", "nodump"} :
       IF w = "ok"
       THEN /\ WriteJson(out_dir, summary_json, Summary)
            /\ processed' = Append(processed, Summary)
            /\ hist' = [hist EXCEPT ![idx].listed = DirNames(out_dir)]
            /\ NextJob
            /\ ResetRun
            /\ UNCHANGED err
       ELSE /\ Raise("OSError", <<"OSError">>)
            /\ hist' = [hist EXCEPT ![idx].listed = DirNames(out_dir), ![idx].io = TRUE]
            /\ IF w = "nodump"
               THEN WriteJson(out_dir, summary_json, Truncated)
               ELSE UNCHANGED <<files, contents>>
            /\ UNCHANGED <<processed, idx, runVars>>
  /\ UNCHANGED <<exitCode, envVars, provVars, pdb_files, failed, manifest, manifestWrites, dirs>>

ErrInfo == [input_file |-> Basename(pdb_path), error |-> err.msg]

\* lines 124-134: the record is appended before error.json is written
JobExcept ==
  /\ pc = "except"
  /\ failed' = Append(failed, ErrInfo)
  /\ err' = NoErr
  /\ ResetRun
  /\ \E ok \in BOOLEAN :
       IF ok
       THEN /\ WriteJson(out_dir, error_json, ErrInfo)
            /\ NextJob
            /\ UNCHANGED <<exitCode, hist>>
       ELSE /\ Exit(1)
            /\ hist' = [hist EXCEPT ![idx].io = TRUE]
            /\ UNCHANGED <<files, contents, idx>>
  /\ UNCHANGED <<envVars, provVars, pdb_files, processed, manifest, manifestWrites, dirs>>

\* ------------------------------------------------------ main: the manifest
Manifest ==
  [processed |-> processed,
   failed |-> failed,
   totals |-> [processed |-> Len(processed),
               failed |-> Len(failed),
               overall |-> Len(processed) + Len(failed)]]

\* lines 136-151
WriteManifest ==
  /\ pc = "manifest"
  /\ manifest' = <<Manifest>>
  /\ manifestWrites' = manifestWrites + 1
  /\ Exit(0)
  /\ UNCHANGED <<envVars, provVars, runVars, pdb_files, idx, processed, failed, dirs,
                 files, contents, err, hist>>

Next ==
  \/ CheckInputDir
  \/ ProvEnter
  \/ ProvMakeDir
  \/ ProvCheckMarker
  \/ ProvSyncStart
  \/ ProvSyncReturn
  \/ ProvMark
  \/ DiscoverJobs
  \/ JobMkdir
  \/ RunCmdOpen
  \/ ReadLine
  \/ ChildWriteLine
  \/ ChildClose
  \/ ChildExit
  \/ OrphanExit
  \/ Tick
  \/ SpinTick
  \/ JobClassify
  \/ JobSummary
  \/ JobExcept
  \/ WriteManifest

Spec == Init /\ [][Next]_vars

\* -------------------------------- the batch run over the model directories
\* a remote weights source is set; RFD_MODEL_DIR is set or unset and the other
\* candidate directory exists or not
InitDirs ==
  /\ mode = "batch"
  /\ pc = "start"
  /\ inputDirExists = TRUE
  /\ listing \in {L \in SUBSET {a_pdb, b_PDB} : Cardinality(L) <= MaxFiles}
  /\ timeout = 0
  /\ InitWeights({uri})
  /\ model_env \in {<<>>, custom_models}
  /\ otherDirs \in SUBSET ({app_models, MainModelDir} \ {ProvModelDir})
  /\ InitCommon
  /\ InitHttpIdle

SpecDirs == InitDirs /\ [][Next]_vars

\* ---------------------------------- the provisioner called again and again
\* a caller that invokes maybe_download_models in a row; sys.exit ends the process
CallEnsure ==
  /\ mode = "ensure"
  /\ pc = "called"
  /\ calls < MaxCalls
  /\ pc' = "prov"
  /\ UNCHANGED <<exitCode, envVars, provVars, runVars, jobVars>>

\* the process is killed somewhere inside maybe_download_models
Crash ==
  /\ mode = "ensure"
  /\ pc \in {"prov", "prov_dir", "prov_marker", "sync", "syncing", "mark"}
  /\ Exit(137)
  /\ UNCHANGED <<envVars, provVars, runVars, jobVars>>

InitEnsure ==
  /\ mode = "ensure"
  /\ pc = "called"
  /\ inputDirExists = TRUE
  /\ listing = {}
  /\ timeout = 0
  /\ InitWeights(S3Envs)
  /\ InitDirsDefault
  /\ InitCommon
  /\ InitHttpIdle

NextEnsure ==
  \/ CallEnsure
  \/ ProvEnter
  \/ ProvMakeDir
  \/ ProvCheckMarker
  \/ ProvSyncStart
  \/ ProvSyncReturn
  \/ ProvMark
  \/ Crash

SpecEnsure == InitEnsure /\ [][NextEnsure]_vars

\* ------------------------------------------------ one invocation of run_cmd
\* run_cmd called for one job whose output directory exists; the run ends when
\* run_cmd returns or raises
InitRun ==
  /\ mode = "run"
  /\ pc = "open"
  /\ inputDirExists = TRUE
  /\ listing = {a_pdb}
  /\ timeout \in {0, MaxTimeout}
  /\ s3_env = <<>>
  /\ InitDirsDefault
  /\ modelDirExists = TRUE
  /\ marker = FALSE
  /\ provHist = [initial |-> FALSE, created |-> FALSE, syncOk |-> FALSE,
                 mutatedAfter |-> FALSE]
  /\ exitCode = -1
  /\ syncCalls = 0
  /\ calls = 0
  /\ returns = 0
  /\ pdb_files = Discover(listing)
  /\ idx = 1
  /\ processed = <<>>
  /\ failed = <<>>
  /\ manifest = <<>>
  /\ manifestWrites = 0
  /\ dirs = {PathJoin(output_root, Stem(pdb_files[1]))}
  /\ files = {}
  /\ contents = {}
  /\ proc = "none"
  /\ rc = -1
  /\ emitted = <<>>
  /\ pipe = <<>>
  /\ lines = <<>>
  /\ sink = <<>>
  /\ elapsed = 0
  /\ err = NoErr
  /\ hist = <<BlankHist>>
  /\ InitHttpIdle

NextRun ==
  \/ RunCmdOpen
  \/ ReadLine
  \/ ChildWriteLine
  \/ ChildClose
  \/ ChildExit
  \/ Tick
  \/ SpinTick

SpecRun == InitRun /\ [][NextRun]_vars

\* --------------------------------------- app.py and src/inference.py
batchOnly ==
  <<exitCode, inputDirExists, listing, timeout, s3_env, model_env, otherDirs, provVars,
    runVars, jobVars>>

\* hydra_overrides: key absent, a list, a non-empty string, the number 0, the string ""
HydraKinds == {"absent", "list", "str", "zero", "empty"}

\* POST bodies: not JSON, JSON null, a JSON string, a JSON object
Requests ==
  {[NoBody EXCEPT !.kind = k] : k \in {"malformed", "null", "str"}}
  \cup [kind : {"dict"}, hydra : HydraKinds, contigs : BOOLEAN, inline : BOOLEAN,
        auto : BOOLEAN]

InitSync ==
  /\ mode = "http"
  /\ pc = "recv"
  /\ inputDirExists = TRUE
  /\ listing = {}
  /\ timeout = 0
  /\ s3_env = <<>>
  /\ InitDirsDefault
  /\ modelDirExists = TRUE
  /\ marker = FALSE
  /\ provHist = [initial |-> FALSE, created |-> FALSE, syncOk |-> FALSE,
                 mutatedAfter |-> FALSE]
  /\ InitCommon
  /\ request \in Requests
  /\ sm_out \in BOOLEAN
  /\ body = NoBody
  /\ command = <<>>
  /\ subprocs = [model |-> 0, download |-> 0]
  /\ madeDirs = FALSE
  /\ outcome = "none"
  /\ result = NoResult
  /\ disk = {}
  /\ produced_files = <<>>
  /\ mirrored = {}
  /\ raised = NoRaise
  /\ response = NoResponse

\* an exception leaves predict
RaiseOut(type, args) ==
  /\ raised' = [type |-> type, args |-> args]
  /\ pc' = "caught"

\* app.py lines 36-39
GetJson ==
  /\ mode = "http"
  /\ pc = "recv"
  /\ IF request.kind = "malformed"
     THEN /\ response' = [status |-> 400, error |-> "Invalid JSON payload"]
          /\ pc' = "done"
          /\ UNCHANGED body
     ELSE /\ body' = request
          /\ pc' = "validate"
          /\ UNCHANGED response
  /\ UNCHANGED <<mode, batchOnly, request, sm_out, command, subprocs, madeDirs, outcome,
                 result, disk, produced_files, mirrored, raised>>

\* inference.py lines 75-83
Validate ==
  /\ pc = "validate"
  /\ IF body.kind = "null"
     THEN RaiseOut("ValueError", <<"Request payload must be a JSON object.">>)
     ELSE IF body.kind # "dict"
     THEN RaiseOut("TypeError", <<"Request payload must be a JSON dictionary.">>)
     ELSE IF body.hydra = "str"
     THEN RaiseOut("TypeError", <<"'hydra_overrides' must be provided as a list of strings">>)
     ELSE pc' = "makedirs" /\ UNCHANGED raised
  /\ UNCHANGED <<mode, batchOnly, request, sm_out, body, command, subprocs, madeDirs,
                 outcome, result, disk, produced_files, mirrored, response>>

\* lines 85-99: os.makedirs of the output and the model directory
MakeDirs ==
  /\ pc = "makedirs"
  /\ \E ok \in BOOLEAN :
       IF ok
       THEN madeDirs' = TRUE /\ pc' = "weights" /\ UNCHANGED raised
       ELSE RaiseOut("OSError", <<"makedirs">>) /\ UNCHANGED madeDirs
  /\ UNCHANGED <<mode, batchOnly, request, sm_out, body, command, subprocs, outcome,
                 result, disk, produced_files, mirrored, response>>

\* lines 101, 182-221: _maybe_download_weights
MaybeDownloadWeights ==
  /\ pc = "weights"
  /\ \E needed \in BOOLEAN :   \* no *.pt in the directory and the script is there
       IF body.auto /\ needed
       THEN /\ subprocs' = [subprocs EXCEPT !.download = @ + 1]
            /\ \E r \in {0, 1} :
                 IF r # 0
                 THEN RaiseOut("RuntimeError",
                        <<"Failed to download RFdiffusion weights",
                          [stdout |-> "out", stderr |-> "err", returncode |-> r]>>)
                 ELSE pc' = "build" /\ UNCHANGED raised
       ELSE pc' = "build" /\ UNCHANGED <<subprocs, raised>>
  /\ UNCHANGED <<mode, batchOnly, request, sm_out, body, command, madeDirs, outcome,
                 result, disk, produced_files, mirrored, response>>

Overrides(h) == IF h = "list" THEN <<"o1", "o2">> ELSE <<>>

\* lines 113-132
Command(b) ==
  <<"python_executable", "script_path", "inference.output_prefix",
    "inference.num_designs", "inference.model_directory_path">>
  \o (IF b.contigs THEN <<"contigmap.contigs">> ELSE <<>>)
  \o Overrides(b.hydra)

\* lines 103-137: the argument list; iterating the number 0 raises TypeError, iterating
\* the string "" adds nothing
BuildCommand ==
  /\ pc = "build"
  /\ IF body.hydra = "zero"
     THEN RaiseOut("TypeError", <<"object is not iterable">>) /\ UNCHANGED command
     ELSE command' = Command(body) /\ pc' = "run" /\ UNCHANGED raised
  /\ UNCHANGED <<mode, batchOnly, request, sm_out, body, subprocs, madeDirs, outcome,
                 result, disk, produced_files, mirrored, response>>

\* lines 142-150: subprocess.run(command, ..., timeout=timeout_seconds, check=False)
RunModel ==
  /\ pc = "run"
  /\ subprocs' = [subprocs EXCEPT !.model = @ + 1]
  /\ \E o \in {"ok", "nonzero", "timeout", "nolaunch"} :
       /\ outcome' = o
       /\ IF o = "nolaunch"
          THEN /\ RaiseOut("FileNotFoundError", <<"No such file or directory">>)
               /\ UNCHANGED <<result, disk>>
          ELSE IF o = "timeout"
          THEN /\ RaiseOut("TimeoutExpired", <<command, "timeout_seconds">>)
               /\ UNCHANGED <<result, disk>>
          ELSE /\ result' = [returncode |-> IF o = "ok" THEN 0 ELSE 1,
                             stdout |-> "out", stderr |-> "err"]
               /\ \E S \in OutSets : disk' = S
               /\ pc' = "check"
               /\ UNCHANGED raised
  /\ UNCHANGED <<mode, batchOnly, request, sm_out, body, command, madeDirs,
                 produced_files, mirrored, response>>

\* lines 152-162
CheckReturnCode ==
  /\ pc = "check"
  /\ IF result.returncode # 0
     THEN RaiseOut("RuntimeError",
            <<"RFdiffusion execution failed",
              [command |-> command, stdout |-> result.stdout, stderr |-> result.stderr,
               returncode |-> result.returncode]>>)
     ELSE pc' = "collect" /\ UNCHANGED raised
  /\ UNCHANGED <<mode, batchOnly, request, sm_out, body, command, subprocs, madeDirs,
                 outcome, result, disk, produced_files, mirrored, response>>

\* lines 87-94: output_base joined with run_name
output_prefix == PathJoin(<<"t">>, output_prefix_base)

\* lines 224-233: sorted(glob(<directory>/<prefix_basename>*))
CollectFiles(prefix, names) ==
  Sorted({PathJoin(Dirname(prefix), f) : f \in {g \in names : StartsWith(g, Basename(prefix))}})

\* line 164
CollectOutputs ==
  /\ pc = "collect"
  /\ produced_files' = CollectFiles(output_prefix, disk)
  /\ pc' = "mirror"
  /\ UNCHANGED <<mode, batchOnly, request, sm_out, body, command, subprocs, madeDirs,
                 outcome, result, disk, mirrored, raised, response>>

Range(q) == {q[i] : i \in 1..Len(q)}

\* lines 165, 236-248: makedirs is outside the try; a failed copy is logged
MirrorOutputs ==
  /\ pc = "mirror"
  /\ IF ~sm_out
     THEN pc' = "respond" /\ UNCHANGED <<mirrored, raised>>
     ELSE \E ok \in BOOLEAN :
            IF ok
            THEN /\ \E copied \in SUBSET Range(produced_files) : mirrored' = copied
                 /\ pc' = "respond"
                 /\ UNCHANGED raised
            ELSE RaiseOut("OSError", <<"makedirs">>) /\ UNCHANGED mirrored
  /\ UNCHANGED <<mode, batchOnly, request, sm_out, body, command, subprocs, madeDirs,
                 outcome, result, disk, produced_files, response>>

\* lines 251-265
SerialiseOutputs(fs, inline) ==
  [i \in 1..Len(fs) |->
     IF inline
     THEN [path |-> fs[i], filename |-> Basename(fs[i]), base64 |-> <<"b64", fs[i]>>]
     ELSE [path |-> fs[i], filename |-> Basename(fs[i])]]

\* inference.py lines 167-179 and app.py line 62
Respond ==
  /\ pc = "respond"
  /\ response' = [status |-> 200,
                  payload |-> [status |-> "ok", command |-> command,
                               stdout |-> result.stdout, stderr |-> result.stderr,
                               outputs |-> SerialiseOutputs(produced_files, body.inline)]]
  /\ pc' = "done"
  /\ UNCHANGED <<mode, batchOnly, request, sm_out, body, command, subprocs, madeDirs,
                 outcome, result, disk, produced_files, mirrored, raised>>

\* app.py lines 43-60
ErrorResponse(exc) ==
  IF exc.type \in {"TypeError", "ValueError"}
  THEN [status |-> 400, error |-> exc.args[1]]
  ELSE IF exc.type = "RuntimeError"
  THEN [status |-> 500, error |-> "RFdiffusion execution failed",
        details |-> IF Len(exc.args) > 1 THEN exc.args[2] ELSE [message |-> exc.args]]
  ELSE [status |-> 500, error |-> "Unhandled server error",
        details |-> [message |-> exc.args]]

Caught ==
  /\ pc = "caught"
  /\ response' = ErrorResponse(raised)
  /\ pc' = "done"
  /\ UNCHANGED <<mode, batchOnly, request, sm_out, body, command, subprocs, madeDirs,
                 outcome, result, disk, produced_files, mirrored, raised>>

NextSync ==
  \/ GetJson
  \/ Validate
  \/ MakeDirs
  \/ MaybeDownloadWeights
  \/ BuildCommand
  \/ RunModel
  \/ CheckReturnCode
  \/ CollectOutputs
  \/ MirrorOutputs
  \/ Respond
  \/ Caught

SpecSync == InitSync /\ [][NextSync]_vars

\* ------------------------------------------------------------ the claims
Jobs == 1..Len(pdb_files)

InProcessed(j) == \E k \in 1..Len(processed) : processed[k].input_file = Basename(pdb_files[j])
InFailed(j) == \E k \in 1..Len(failed) : failed[k].input_file = Basename(pdb_files[j])
ProcessedRec(j) == processed[CHOOSE k \in 1..Len(processed) : processed[k].input_file = Basename(pdb_files[j])]
FailedRec(j) == failed[CHOOSE k \in 1..Len(failed) : failed[k].input_file = Basename(pdb_files[j])]
Occurrences(j) ==
  Cardinality({k \in 1..Len(processed) : processed[k].input_file = Basename(pdb_files[j])})
  + Cardinality({k \in 1..Len(failed) : failed[k].input_file = Basename(pdb_files[j])})

\* the job's loop iteration is over
Settled(j) == j < idx \/ (j = idx /\ pc \in {"manifest", "exited"})

\* C1: a failure at any step of a job (output directory, command, non-zero exit,
\* timeout, summary.json, error.json) never aborts the batch: once the process has
\* ended after discovering jobs, every job was attempted, each job that met a
\* failure is in `failed`, and manifest.json was written.
C1_FailureNeverAborts ==
  (pc = "exited" /\ pdb_files # <<>>) =>
    /\ idx = Len(pdb_files)
    /\ \A j \in Jobs : (hist[j].io \/ hist[j].rc = 1 \/ hist[j].late) => InFailed(j)
    /\ manifest # <<>>

\* C2: every manifest.json written has totals with
\* processed + failed = overall = number of discovered jobs, zero jobs included.
C2_ManifestTotals ==
  manifest # <<>> =>
    /\ "totals" \in DOMAIN manifest[1]
    /\ manifest[1].totals.processed + manifest[1].totals.failed = manifest[1].totals.overall
    /\ manifest[1].totals.overall = Len(pdb_files)

\* C3: with a timeout T > 0, a command whose child is still running when T has
\* elapsed is killed and its job is in `failed`, never in `processed`; a command
\* whose child exits before T is not killed and is classified by its exit code
\* alone; no command is launched twice.
C3_TimeoutEnforced ==
  \A j \in Jobs :
    /\ hist[j].launches <= 1
    /\ (timeout # 0 /\ Settled(j) /\ hist[j].launches = 1 /\ ~hist[j].io) =>
         IF hist[j].overran
         THEN hist[j].killed /\ InFailed(j) /\ ~InProcessed(j)
         ELSE ~hist[j].killed /\ (InProcessed(j) <=> hist[j].rc = 0)

\* what the job's own command produced, listed by the rule of line 110
OwnProduced(j) == Sorted({f \in GlobStar(hist[j].own) : EndsWith(f, <<".", "p", "d", "b">>)})

\* C4: when the manifest is written each job appears exactly once across
\* `processed` and `failed`; a job whose command exits non-zero is in `failed`
\* with a non-empty error and not in `processed`; and the record of every other
\* job is the one its own run determines, whatever the failing job did.
C4_FailedJobIsolated ==
  (manifest # <<>> /\ pdb_files # <<>>) =>
    \A j \in Jobs :
      /\ Occurrences(j) = 1
      /\ hist[j].rc = 1 =>
           /\ InFailed(j) /\ FailedRec(j).error # <<>> /\ ~InProcessed(j)
           /\ \A o \in Jobs \ {j} :
                InProcessed(o) => ProcessedRec(o).produced_files = OwnProduced(o)

\* C5: a batch whose input directory holds no eligible file writes a manifest with
\* processed = [], failed = [], totals.overall = 0, launches no command, exits 0.
C5_EmptyBatch ==
  (manifest # <<>> /\ pdb_files = <<>>) =>
    /\ manifest[1].processed = <<>>
    /\ manifest[1].failed = <<>>
    /\ "totals" \in DOMAIN manifest[1]
    /\ manifest[1].totals.overall = 0
    /\ proc = "none"
    /\ exitCode = 0

\* C6: a ProcessedRecord's produced_files are the sorted names of the files of the
\* job's output directory that match <output prefix>*: all of them, nothing else.
C6_ProducedMatchesPrefix ==
  \A j \in Jobs :
    InProcessed(j) =>
      ProcessedRec(j).produced_files
        = Sorted({f \in hist[j].listed : StartsWith(f, output_prefix_base)})

\* C7: the stems of the discovered files are pairwise distinct, so no two jobs
\* use the same output directory.
C7_StemsDistinct ==
  \A i, j \in Jobs :
    i # j =>
      /\ Stem(pdb_files[i]) # Stem(pdb_files[j])
      /\ PathJoin(output_root, Stem(pdb_files[i])) # PathJoin(output_root, Stem(pdb_files[j]))

SyncFailed == syncCalls > 0 /\ ~marker

\* C8: the process exits 1 exactly when the input directory is absent or the
\* weight sync fails, then before any command is launched and without a manifest;
\* every other run writes the manifest and exits 0.
C8_ExitCodes ==
  pc = "exited" =>
    /\ exitCode = 1 <=> (~inputDirExists \/ SyncFailed)
    /\ exitCode = 1 => (manifest = <<>> /\ \A j \in Jobs : hist[j].launches = 0)
    /\ exitCode = 0 => manifest # <<>>

\* C9: calls of maybe_download_models in a row issue at most one sync in total;
\* once a call has returned, no later call gets to the sync; with no remote
\* source no call syncs.
C9_AtMostOneSync ==
  /\ syncCalls <= 1
  /\ returns >= 1 => pc \notin {"sync", "syncing", "mark"}
  /\ s3_uri = <<>> => syncCalls = 0

C9_Witness ==
  /\ mode = "ensure"
  /\ pc = "called"
  /\ calls >= 2
  /\ returns = calls
  /\ syncCalls = 1
  /\ marker

\* C10: every failed execution of the model command (non-zero exit, timeout,
\* failure to launch) raises RuntimeError carrying the command, stdout, stderr and
\* the exit code, and the HTTP layer answers 500 'RFdiffusion execution failed'
\* with those details.
C10_ExecutionErrorReported ==
  (pc = "done" /\ outcome \in {"nonzero", "timeout", "nolaunch"}) =>
    /\ raised.type = "RuntimeError"
    /\ response.status = 500
    /\ response.error = "RFdiffusion execution failed"
    /\ DOMAIN response.details = {"command", "stdout", "stderr", "returncode"}
    /\ response.details.command = command

\* C11: a body that is absent (None) or not a dictionary makes predict raise
\* ValueError/TypeError before any directory is created, any weight download is
\* attempted and any subprocess is launched; a hydra_overrides value that is not a
\* list is never answered with success and no subprocess is launched for it.
C11_ValidationBeforeEffects ==
  /\ request.kind \in {"null", "str"} =>
       /\ ~madeDirs
       /\ subprocs = [model |-> 0, download |-> 0]
       /\ pc = "done" => raised.type \in {"ValueError", "TypeError"}
  /\ (request.kind = "dict" /\ request.hydra \in {"str", "zero", "empty"}) =>
       /\ subprocs = [model |-> 0, download |-> 0]
       /\ pc = "done" => response.status # 200

\* the files on disk whose path starts with the output prefix, sorted
PathsWithPrefix ==
  Sorted({q \in {PathJoin(Dirname(output_prefix), f) : f \in disk} : StartsWith(q, output_prefix)})

\* C12: when the model command exits 0, predict has launched it exactly once, the
\* argument list holds contigmap.contigs when contigs is given and the hydra
\* overrides in the given order, and the answer is status "ok" with outputs = the
\* sorted files whose path starts with the output prefix, each with filename =
\* basename and a base64 field exactly when inline_outputs is true.
C12_SuccessResponse ==
  (pc = "done" /\ outcome = "ok") =>
    /\ subprocs.model = 1
    /\ body.contigs => "contigmap.contigs" \in Range(command)
    /\ body.hydra = "list" => SubSeq(command, Len(command) - 1, Len(command)) = <<"o1", "o2">>
    /\ response.status = 200
    /\ response.payload.status = "ok"
    /\ response.payload.command = command
    /\ LET outputs == response.payload.outputs
       IN /\ [i \in 1..Len(outputs) |-> outputs[i].path] = PathsWithPrefix
          /\ \A i \in 1..Len(outputs) :
               /\ outputs[i].filename = Basename(outputs[i].path)
               /\ ("base64" \in DOMAIN outputs[i]) <=> body.inline

\* C13: with SM_OUTPUT_DATA_DIR set and the model command exited 0, no failure of
\* the mirroring step (creating the directory, copying a file) makes predict fail:
\* the answer is still status "ok" and lists all produced files.
C13_MirrorBestEffort ==
  (pc = "done" /\ sm_out /\ outcome = "ok") =>
    /\ raised = NoRaise
    /\ response.status = 200
    /\ response.payload.status = "ok"
    /\ [i \in 1..Len(response.payload.outputs) |-> response.payload.outputs[i].path]
         = produced_files

OutDirOf(j) == PathJoin(output_root, Stem(pdb_files[j]))

\* C14: once manifest.json is written, each job's output directory holds exactly
\* one of summary.json and error.json: summary.json equal to the job's record in
\* `processed`, or error.json equal to the job's record in `failed`.
C14_OneArtifactPerJob ==
  (manifest # <<>> /\ pdb_files # <<>>) =>
    \A j \in Jobs :
      LET hasSummary == <<OutDirOf(j), summary_json>> \in files
          hasError == <<OutDirOf(j), error_json>> \in files
      IN /\ hasSummary # hasError
         /\ hasSummary =>
              InProcessed(j) /\ <<OutDirOf(j), summary_json, ProcessedRec(j)>> \in contents
         /\ hasError =>
              InFailed(j) /\ <<OutDirOf(j), error_json, FailedRec(j)>> \in contents

\* C15: a batch run that gets past the input-directory check and the weight
\* provisioning writes manifest.json exactly once, after the last job has been
\* attempted, and nothing is launched or written after it: the write ends the run.
C15_ManifestOnceAtEnd ==
  /\ manifestWrites <= 1
  /\ (pc = "exited" /\ returns >= 1) => manifestWrites = 1
  /\ manifest # <<>> =>
       /\ pc = "exited"
       /\ idx = Len(pdb_files)
       /\ proc = "none"
       /\ \A j \in Jobs : Settled(j)

\* the discovered job a record of `processed` or `failed` belongs to
JobOf(rec) == CHOOSE j \in Jobs : Basename(pdb_files[j]) = rec.input_file

\* C16: jobs are launched in ascending lexicographic order of their input paths,
\* and the records of `processed`, and those of `failed`, are in the relative
\* order in which their jobs were discovered.
C16_OrderPreserved ==
  /\ \A i, j \in Jobs :
       (hist[i].seq > 0 /\ hist[j].seq > 0 /\ hist[i].seq < hist[j].seq) =>
         LexLess(pdb_files[i], pdb_files[j])
  /\ \A k, l \in 1..Len(processed) :
       k < l => LexLess(pdb_files[JobOf(processed[k])], pdb_files[JobOf(processed[l])])
  /\ \A k, l \in 1..Len(failed) :
       k < l => LexLess(pdb_files[JobOf(failed[k])], pdb_files[JobOf(failed[l])])

C16_Witness ==
  /\ manifest # <<>>
  /\ Len(pdb_files) >= 2
  /\ \A j \in Jobs : hist[j].seq = j
  /\ Len(processed) >= 2 \/ Len(failed) >= 2

AliveJobs == {j \in 1..Len(hist) : hist[j].alive}

\* C17: at most one job's external process is alive at any time: a command is
\* launched only after the process of the job before it has exited or been
\* killed on timeout, and a timeout kills the process of the timed-out job only.
C17_OneProcessAtATime ==
  /\ Cardinality(AliveJobs) <= 1
  /\ \A j \in 1..Len(hist) : hist[j].killed => (hist[j].late /\ j <= idx)

\* C18: if the provisioner created the completion marker, a sync had returned
\* exit code 0 before; a failed sync, or a crash before the sync returns, leaves
\* the marker as it was; and the provisioner mutates nothing after writing the
\* marker.
C18_MarkerOnlyAfterSync ==
  /\ provHist.created => (provHist.syncOk /\ marker)
  /\ ~provHist.syncOk => (marker = provHist.initial /\ ~provHist.created)
  /\ ~provHist.mutatedAfter

C18_Witness ==
  /\ mode = "ensure"
  /\ provHist.created
  /\ ~provHist.initial
  /\ marker
  /\ syncCalls = 1
  /\ calls >= 2

\* the lines run_cmd has taken out of the pipe so far
LinesRead == SubSeq(emitted, 1, Len(emitted) - Len(pipe))

\* the snippet the lines read so far should give
SnippetOf(read) ==
  [i \in 1..(IF Len(read) < SnippetLines THEN Len(read) ELSE SnippetLines) |->
     Truncate(Strip(read[i]), SnippetChars)]

\* C19: during run_cmd the snippet has at most 10 entries of at most 500
\* characters and is the stripped, truncated prefix of the lines read so far;
\* every line read is in the log sink, in order, before the next one is read; and
\* when run_cmd returns the sink holds every line the child wrote and the exit
\* code returned is the child's.
C19_SnippetAndSink ==
  (pc \in {"read", "returned"} \/ (pc = "except" /\ err.kind = "TimeoutError")) =>
    /\ Len(lines) <= 10
    /\ \A i \in 1..Len(lines) : Len(lines[i]) <= 500
    /\ lines = SnippetOf(LinesRead)
    /\ sink = LinesRead
    /\ pc = "returned" =>
         /\ sink = emitted
         /\ rc \in {0, 1}
         /\ rc = hist[idx].rc

C19_Witness ==
  /\ mode = "run"
  /\ pc = "returned"
  /\ Len(emitted) > SnippetLines
  /\ Len(lines) = SnippetLines
  /\ emitted[2] = LongLine
  /\ Len(lines[2]) = SnippetChars
  /\ lines[1] = <<"a">>
  /\ rc = 1

\* C20: with a remote weights source configured, the directory the provisioner
\* syncs the weights into is the directory every job command gets as
\* inference.model_directory_path, whether RFD_MODEL_DIR is set or not and
\* whichever model directories exist.
C20_SameModelDir ==
  (s3_uri # <<>> /\ syncCalls >= 1) =>
    \A j \in Jobs : hist[j].launches = 1 => hist[j].model_dir = ProvModelDir

====
